---------------------------- MODULE Spec2Model ----------------------------
(***************************************************************************)
(* async-socks5: the SOCKS5 CONNECT proxy of src/src/server.rs.           *)
(*                                                                         *)
(* One state machine per client connection: the future that               *)
(* start_socks5_server's for_each_concurrent closure builds               *)
(* (socks5_handshake, then socks5_forward), the task socks5_forward       *)
(* spawns for the remote->client copy, and the two TCP peers (client and  *)
(* remote) as the environment.  Every await point of the code is one      *)
(* action.                                                                 *)
(*                                                                         *)
(* Sockets.  A socket is seen from the proxy: the bytes the peer has sent *)
(* and the proxy has not read (cbuf, rbuf), the peer's end of the         *)
(* connection (cend, rend: "open", "fin" after the peer closed its write  *)
(* side, "rst" after the peer reset the connection), and the set of       *)
(* sockets on which shutdown(Both) has been called (issued).  A read      *)
(* returns queued data first; with nothing queued it blocks on an open    *)
(* peer, returns 0 after a FIN or a local shutdown, and fails after a     *)
(* reset.  A write fails after a reset or a local shutdown and otherwise  *)
(* completes (send buffers are not modelled, a write never blocks).       *)
(* shutdown fails (ENOTCONN) on a reset socket; on a socket that is       *)
(* already shut down and whose peer has closed too, the connection may be *)
(* fully closed by then, and shutdown succeeds or fails (ENOTCONN).       *)
(***************************************************************************)
EXTENDS Integers, Sequences, FiniteSets, TLC

(* ------------------------------ bounds --------------------------------- *)
\* largest max_connections argument tried (0 stands for "no limit")
MaxCap == 1
\* longest method list a greeting of the scripts offers
MaxMethods == 1

(* ------------------------- protocol constants -------------------------- *)
SOCKS_VERSION == 5
NO_AUTH == 0
RSV == 0
CMD_CONNECT == 1
TYP_IPV4 == 1
TYP_DOMAIN == 3
TYP_IPV6 == 4
RESP_SUCCESS == 0

\* the client connections that may reach the listener
Conns == {1, 2}

Min(a, b) == IF a <= b THEN a ELSE b

Take(s, n) == SubSeq(s, 1, Min(n, Len(s)))
Drop(s, n) == SubSeq(s, Min(n, Len(s)) + 1, Len(s))

Prefixes(s) == {SubSeq(s, 1, n) : n \in 0..Len(s)}

(* ------------------------------ results -------------------------------- *)
\* Socks5Error: a variant, and for IOError the kind of the io::Error it wraps
Socks5Error(v) == [variant |-> v, io |-> ""]

\* std::io::Error, by its kind
IoError(kind) == [variant |-> "io::Error", io |-> kind]

\* impl From<std::io::Error> for Socks5Error
FromIoError(e) == [variant |-> "IOError", io |-> e.io]

\* Result<T, E>: not yet produced, Ok(v), Err(e)
None == [tag |-> "None", val |-> <<>>, err |-> Socks5Error("")]
Ok(v) == [tag |-> "Ok", val |-> v, err |-> Socks5Error("")]
Err(e) == [tag |-> "Err", val |-> <<>>, err |-> e]

(* ------------------- pure functions of the handshake ------------------- *)
\* u16::to_string / u8::to_string: the decimal digits, as UTF-8 bytes
RECURSIVE Dec(_)
Dec(n) == IF n < 10 THEN <<48 + n>> ELSE Dec(n \div 10) \o <<48 + (n % 10)>>

\* lower-case hexadecimal without leading zeros ({:x})
HexDigit(d) == IF d < 10 THEN 48 + d ELSE 87 + d
RECURSIVE Hex(_)
Hex(n) == IF n < 16 THEN <<HexDigit(n)>> ELSE Hex(n \div 16) \o <<HexDigit(n % 16)>>

\* Ipv4Addr::from([u8; 4]).to_string()
Ipv4Text(bs) ==
    Dec(bs[1]) \o <<46>> \o Dec(bs[2]) \o <<46>> \o Dec(bs[3]) \o <<46>> \o Dec(bs[4])

\* the eight 16-bit segments of an IPv6 address
Segments(bs) == [i \in 1..8 |-> bs[2 * i - 1] * 256 + bs[2 * i]]

\* length of the run of zero segments that starts at segment i
RECURSIVE ZeroRun(_, _)
ZeroRun(sg, i) == IF i > 8 \/ sg[i] # 0 THEN 0 ELSE 1 + ZeroRun(sg, i + 1)

\* segments i..j in hexadecimal, joined by ':'
RECURSIVE HexJoin(_, _, _)
HexJoin(sg, i, j) ==
    IF i > j THEN <<>>
    ELSE IF i = j THEN Hex(sg[i])
    ELSE Hex(sg[i]) \o <<58>> \o HexJoin(sg, i + 1, j)

\* Ipv6Addr::from([u8; 16]).to_string(): an IPv4-mapped address as
\* ::ffff:a.b.c.d, otherwise the first longest run of two or more zero
\* segments compressed to "::"
Ipv6Text(bs) ==
    LET sg == Segments(bs)
        longest == CHOOSE i \in 1..8 :
            /\ \A j \in 1..8 : ZeroRun(sg, j) <= ZeroRun(sg, i)
            /\ \A j \in 1..(i - 1) : ZeroRun(sg, j) < ZeroRun(sg, i)
        len == ZeroRun(sg, longest)
    IN  IF (\A i \in 1..5 : sg[i] = 0) /\ sg[6] = 65535
        THEN <<58, 58, 102, 102, 102, 102, 58>> \o Ipv4Text(SubSeq(bs, 13, 16))
        ELSE IF len >= 2
        THEN HexJoin(sg, 1, longest - 1) \o <<58, 58>> \o HexJoin(sg, longest + len, 8)
        ELSE HexJoin(sg, 1, 8)

\* String::from_utf8(domain).is_ok()
Cont(b) == b >= 128 /\ b <= 191
RECURSIVE IsUtf8(_)
IsUtf8(bs) ==
    IF bs = <<>> THEN TRUE
    ELSE LET b == bs[1]
             n == Len(bs)
         IN  IF b < 128 THEN IsUtf8(Tail(bs))
             ELSE IF b >= 194 /\ b <= 223
             THEN n >= 2 /\ Cont(bs[2]) /\ IsUtf8(SubSeq(bs, 3, n))
             ELSE IF b >= 224 /\ b <= 239
             THEN /\ n >= 3
                  /\ Cont(bs[2]) /\ Cont(bs[3])
                  /\ (b = 224 => bs[2] >= 160)
                  /\ (b = 237 => bs[2] <= 159)
                  /\ IsUtf8(SubSeq(bs, 4, n))
             ELSE IF b >= 240 /\ b <= 244
             THEN /\ n >= 4
                  /\ Cont(bs[2]) /\ Cont(bs[3]) /\ Cont(bs[4])
                  /\ (b = 240 => bs[2] >= 144)
                  /\ (b = 244 => bs[2] <= 143)
                  /\ IsUtf8(SubSeq(bs, 5, n))
             ELSE FALSE

\* ((buf[0] as u16) << 8) + buf[1] as u16
Port_ShiftInU8(hi, lo) == (((hi * 256) % 256) + lo) % 65536
Port(hi, lo) == (((hi * 256) % 65536) + lo) % 65536

\* host + ":" + &port.to_string()
Target(host, hi, lo) == host \o <<58>> \o Dec(Port(hi, lo))

(* --------------------- pure functions of the relay --------------------- *)
\* the two bytes of a u16 in network order
PortBytes(p) == <<p \div 256, p % 256>>

\* the reply buffers as they are initialised, before the unsafe stores
ReplyInitV4 == <<SOCKS_VERSION, RESP_SUCCESS, RSV, TYP_IPV4, 0, 0, 0, 0, 0, 0>>
ReplyInitV6 == <<SOCKS_VERSION, RESP_SUCCESS, RSV, TYP_IPV6>> \o [i \in 1..18 |-> 0]

\* the reply buffers after the stores of the address and the port
ReplyV4(peer) == SubSeq(ReplyInitV4, 1, 4) \o peer.ip \o PortBytes(peer.port)
ReplyV6(peer) == SubSeq(ReplyInitV6, 1, 4) \o peer.ip \o PortBytes(peer.port)

\* The stores go through a pointer obtained from a shared borrow of the
\* buffer (buf.as_ptr() cast to *mut): undefined behaviour.  A build either
\* performs them (storesKept) or hands write_all the buffer as initialised.
ReplyBytes(peer, kept) ==
    IF peer.fam = "V4"
    THEN (IF kept THEN ReplyV4(peer) ELSE ReplyInitV4)
    ELSE (IF kept THEN ReplyV6(peer) ELSE ReplyInitV6)

(* ------------------------------- state --------------------------------- *)
VARIABLES
    maxConnections, \* start_socks5_server's argument (0: no limit)
    storesKept,     \* whether this build performs the unsafe stores of the reply
    script,         \* per connection: every byte its client sends, in order
    pc,             \* per connection: where its handler future stands
    spc,            \* per connection: where the task socks5_forward spawns stands
    cbuf,           \* bytes the client has sent and the proxy has not read
    cend,           \* the client's end: "open", "fin", "rst"
    cout,           \* bytes the proxy has written to the client
    rbuf,           \* bytes the remote has sent and the proxy has not read
    rend,           \* the remote's end: "none" before connect, "open", "fin", "rst"
    rout,           \* bytes the proxy has written to the remote
    issued,         \* the sockets ("local", "remote") shutdown(Both) was called on
    count,          \* read_n_bytes: count
    acc,            \* read_n_bytes: buf[..nr]
    host,           \* socks5_handshake: host
    hs,             \* what socks5_handshake returned
    fwd,            \* the target socks5_forward was called with
    dest,           \* what connect(target) reaches: the peer and what it sends
    copyL,          \* what the inline io::copy(local, remote) returned
    copyR,          \* what the spawned io::copy(remote_clone, local_clone) returned
    result          \* what socks5_forward returned

clientVars == <<cbuf, cend, cout>>
remoteVars == <<rbuf, rend, rout, dest>>
hsVars == <<count, acc, host, hs>>
relayVars == <<issued, copyL, copyR, result>>
globVars == <<maxConnections, storesKept, script>>
vars == <<maxConnections, storesKept, script, pc, spc, cbuf, cend, cout, rbuf, rend, rout,
          issued, count, acc, host, hs, fwd, dest, copyL, copyR, result>>

\* everything the model keeps about connection c
ConnState(c) ==
    <<script[c], pc[c], spc[c], cbuf[c], cend[c], cout[c], rbuf[c], rend[c], rout[c], issued[c],
      count[c], acc[c], host[c], hs[c], fwd[c], dest[c], copyL[c], copyR[c], result[c]>>

(* --------------------------- client scripts ---------------------------- *)
\* what a client sends: greeting, request, then payload for the remote
Greeting(ver, methods) == <<ver, Len(methods)>> \o methods
Request(ver, cmd, rsv, atyp, addr, port) == <<ver, cmd, rsv, atyp>> \o addr \o port

MethodLists == UNION {[1..n -> {NO_AUTH, 2}] : n \in 0..MaxMethods}
V4Addr == <<10, 0, 0, 2>>
V6Addr == <<32, 1, 13, 184, 0, 0, 0, 0, 0, 0, 0, 0, 0, 0, 0, 1>>
Domains == {<<>>, <<97, 46, 98>>, <<195, 169>>, <<97, 255>>}
Addrs ==
    {<<TYP_IPV4, V4Addr>>, <<TYP_IPV6, V6Addr>>, <<2, <<>>>>}
        \cup {<<TYP_DOMAIN, <<Len(d)>> \o d>> : d \in Domains}
Ports == {<<0, 80>>, <<255, 255>>}
Payload == <<7, 8>>

GoodGreeting == Greeting(SOCKS_VERSION, <<NO_AUTH>>)
GoodRequest == Request(SOCKS_VERSION, CMD_CONNECT, RSV, TYP_IPV4, V4Addr, <<0, 80>>)

\* complete conversations, each field varied in turn
Conversations ==
    {Greeting(v, <<NO_AUTH>>) \o GoodRequest : v \in {SOCKS_VERSION, 4}}
        \cup {Greeting(SOCKS_VERSION, m) \o GoodRequest \o Payload : m \in MethodLists}
        \cup {GoodGreeting \o Request(v, c, r, a, V4Addr, <<0, 80>>) :
                 v \in {SOCKS_VERSION, 4}, c \in {CMD_CONNECT, 2}, r \in {RSV, 1},
                 a \in {TYP_IPV4, 2}}
        \cup {GoodGreeting
                  \o Request(SOCKS_VERSION, CMD_CONNECT, RSV, a[1], a[2], p) \o Payload :
                 a \in Addrs, p \in Ports}

\* a client may stop anywhere in its conversation
HandshakeScripts == UNION {Prefixes(s) : s \in Conversations}

\* every client of the one-connection specification may run any script
AnyScript == [c \in Conns |-> HandshakeScripts]

\* the scripts of the two clients of the server specification
ServerScripts ==
    [c \in Conns |->
        IF c = 1
        THEN {GoodGreeting \o GoodRequest \o <<7>>, Greeting(4, <<NO_AUTH>>)}
        ELSE {GoodGreeting
                  \o Request(SOCKS_VERSION, CMD_CONNECT, RSV, TYP_DOMAIN, <<1, 97>>, <<0, 80>>),
              GoodGreeting
                  \o Request(SOCKS_VERSION, CMD_CONNECT, RSV, TYP_IPV6, V6Addr, <<>>)}]

\* What TcpStream::connect(target) reaches: a peer of either family and the
\* bytes it sends once connected, or nothing (resolution or connect fails)
Unreachable == [fam |-> "", ip |-> <<>>, port |-> 0, data |-> <<>>]
Destinations ==
    {[fam |-> "V4", ip |-> V4Addr, port |-> 80, data |-> <<9, 10>>],
     [fam |-> "V6", ip |-> V6Addr, port |-> 65535, data |-> <<>>],
     Unreachable}
ServerDestinations == {[fam |-> "V4", ip |-> V4Addr, port |-> 80, data |-> <<>>]}

(* ------------------------------ sockets -------------------------------- *)
\* where a handler future holds the client socket / the remote socket
HandshakePcs == {"greeting", "methods", "select", "request", "addr4", "domlen",
                 "domain", "addr6", "port"}
ForwardPcs == {"connect", "reply", "copy", "shut_local", "shut_remote"}
SpawnedPcs == {"copy", "shut_local", "shut_remote"}

\* the handler futures for_each_concurrent is running
InFlight == {c \in Conns : pc[c] \in HandshakePcs \cup ForwardPcs}

\* a handle of the client socket (stream, local, local_clone) is alive
LocalHeld(c) == pc[c] \in HandshakePcs \cup ForwardPcs \/ spc[c] \in SpawnedPcs
\* a handle of the remote socket (remote, remote_clone) is alive
RemoteHeld(c) ==
    pc[c] \in {"reply", "copy", "shut_local", "shut_remote"} \/ spc[c] \in SpawnedPcs

\* a read of the client socket: queued data first, then the state of the socket
LocalReadErr(c) == cbuf[c] = <<>> /\ cend[c] = "rst"
LocalReadEof(c) ==
    cbuf[c] = <<>> /\ cend[c] # "rst" /\ (cend[c] = "fin" \/ "local" \in issued[c])
RemoteReadErr(c) == rbuf[c] = <<>> /\ rend[c] = "rst"
RemoteReadEof(c) ==
    rbuf[c] = <<>> /\ rend[c] # "rst" /\ (rend[c] = "fin" \/ "remote" \in issued[c])

\* a write fails on a socket that was reset or shut down
LocalWriteErr(c) == cend[c] = "rst" \/ "local" \in issued[c]
RemoteWriteErr(c) == rend[c] = "rst" \/ "remote" \in issued[c]

\* TcpStream::shutdown(Shutdown::Both) on a socket whose peer's end is `end`
\* and that was (`already`) or was not shut down before: whether it succeeds
ShutdownResults(end, already) ==
    IF end = "rst" THEN {FALSE}
    ELSE IF already /\ end = "fin" THEN {TRUE, FALSE}
    ELSE {TRUE}

(* --------------------------- initial states ---------------------------- *)
\* the clients in `arriving` will connect, client c with a script of
\* scripts[c] and a target that leads to one of `dests`
InitWith(arriving, scripts, dests, caps, builds) ==
    /\ maxConnections \in caps
    /\ storesKept \in builds
    /\ pc = [c \in Conns |-> IF c \in arriving THEN "pending" ELSE "absent"]
    /\ spc = [c \in Conns |-> "none"]
    /\ \E f \in [arriving -> UNION {scripts[c] : c \in arriving}] :
           /\ \A c \in arriving : f[c] \in scripts[c]
           /\ script = [c \in Conns |-> IF c \in arriving THEN f[c] ELSE <<>>]
           /\ cbuf = script
    /\ cend = [c \in Conns |-> "open"]
    /\ cout = [c \in Conns |-> <<>>]
    /\ rbuf = [c \in Conns |-> <<>>]
    /\ rend = [c \in Conns |-> "none"]
    /\ rout = [c \in Conns |-> <<>>]
    /\ issued = [c \in Conns |-> {}]
    /\ count = [c \in Conns |-> 0]
    /\ acc = [c \in Conns |-> <<>>]
    /\ host = [c \in Conns |-> <<>>]
    /\ hs = [c \in Conns |-> None]
    /\ fwd = [c \in Conns |-> None]
    /\ \E f \in [arriving -> dests] :
           dest = [c \in Conns |-> IF c \in arriving THEN f[c] ELSE Unreachable]
    /\ copyL = [c \in Conns |-> None]
    /\ copyR = [c \in Conns |-> None]
    /\ result = [c \in Conns |-> None]

\* one connection against every script and destination; main.rs passes
\* max_connections = 0
Init == InitWith({1}, AnyScript, Destinations, {0}, BOOLEAN)

\* two connections against every limit
InitServer == InitWith(Conns, ServerScripts, ServerDestinations, 0..MaxCap, {TRUE})

(* --------------------------- the acceptor ------------------------------ *)
\* for_each_concurrent(limit, ..) takes the next item of incoming() while
\* fewer than limit futures are in flight; a limit of 0 is no limit
SlotFree_Unbounded == TRUE
SlotFree_UntilError ==
    /\ maxConnections = 0 \/ Cardinality(InFlight) < maxConnections
    /\ \A c \in Conns : hs[c].tag # "Err" /\ result[c].tag # "Err"
SlotFree == maxConnections = 0 \/ Cardinality(InFlight) < maxConnections

\* an item Ok(stream): the closure starts socks5_handshake on it
Accept(c) ==
    /\ pc[c] = "pending"
    /\ SlotFree
    /\ pc' = [pc EXCEPT ![c] = "greeting"]
    /\ UNCHANGED <<globVars, spc, clientVars, remoteVars, hsVars, fwd, relayVars>>

\* an item Err(_): `if let Ok(..)` does not match and the closure is done
AcceptFail(c) ==
    /\ pc[c] = "pending"
    /\ SlotFree
    /\ pc' = [pc EXCEPT ![c] = "done"]
    /\ cbuf' = [cbuf EXCEPT ![c] = <<>>]
    /\ UNCHANGED <<globVars, spc, cend, cout, remoteVars, hsVars, fwd, relayVars>>

\* the closure's match on what socks5_handshake returned: Ok(target) calls
\* socks5_forward(stream, target), Err(_) drops the stream
HandlerNext_Always(r) == "connect"
HandlerNext(r) == IF r.tag = "Ok" THEN "connect" ELSE "done"

\* socks5_handshake returns r
HsReturn(c, r) ==
    /\ hs' = [hs EXCEPT ![c] = r]
    /\ pc' = [pc EXCEPT ![c] = HandlerNext(r)]
    /\ fwd' = [fwd EXCEPT ![c] = IF HandlerNext(r) = "connect" THEN Ok(r.val) ELSE None]

\* socks5_handshake goes on to its next await
HsGoto(c, next) ==
    /\ pc' = [pc EXCEPT ![c] = next]
    /\ UNCHANGED <<hs, fwd>>

\* what follows each call of read_n_bytes in socks5_handshake
\* line 29: the method list is dropped
AfterMethods_RequireNoAuth(c, buf) ==
    IF \E i \in 1..Len(buf) : buf[i] = NO_AUTH
    THEN HsGoto(c, "select") /\ UNCHANGED host
    ELSE HsReturn(c, Err(Socks5Error("UnsupportedVersion"))) /\ UNCHANGED host
AfterMethods(c, buf) == HsGoto(c, "select") /\ UNCHANGED host
\* ioutil::try_into_wrapper::<&[u8], [u8; n]>(&buf).is_ok()
try_into_wrapper(buf, n) == Len(buf) = n

\* lines 48-52: try_into [u8; 4], Ipv4Addr to_string
AfterAddr4(c, buf) ==
    IF try_into_wrapper(buf, 4)
    THEN host' = [host EXCEPT ![c] = Ipv4Text(buf)] /\ HsGoto(c, "port")
    ELSE HsReturn(c, Err(Socks5Error("ParseAddrError"))) /\ UNCHANGED host
\* lines 62-66: String::from_utf8
AfterDomain(c, buf) ==
    IF IsUtf8(buf)
    THEN host' = [host EXCEPT ![c] = buf] /\ HsGoto(c, "port")
    ELSE HsReturn(c, Err(Socks5Error("ParseAddrError"))) /\ UNCHANGED host
\* lines 72-76: try_into [u8; 16], Ipv6Addr to_string
AfterAddr6(c, buf) ==
    IF try_into_wrapper(buf, 16)
    THEN host' = [host EXCEPT ![c] = Ipv6Text(buf)] /\ HsGoto(c, "port")
    ELSE HsReturn(c, Err(Socks5Error("ParseAddrError"))) /\ UNCHANGED host

(* ----------------------- ioutil::_read_n_bytes ------------------------- *)
\* what _read_n_bytes returns once its loop has ended with nr bytes read
ReadNResult_ShortAccepted(nr, cnt) ==
    IF nr > cnt THEN Err(Socks5Error("ExtraDataRead")) ELSE Ok(nr)
ReadNResult(nr, cnt) ==
    IF nr = cnt THEN Ok(nr)
    ELSE IF nr > cnt THEN Err(Socks5Error("ExtraDataRead"))
    ELSE Err(Socks5Error("UnexpectedEOF"))

\* what socks5_handshake does with the buffer _read_n_bytes has filled
AfterReadN(c, buf) ==
    IF pc[c] = "methods" THEN AfterMethods(c, buf)
    ELSE IF pc[c] = "addr4" THEN AfterAddr4(c, buf)
    ELSE IF pc[c] = "domain" THEN AfterDomain(c, buf)
    ELSE AfterAddr6(c, buf)

\* One stream.read(&mut buf[nr..]) of the loop of _read_n_bytes(stream, buf,
\* count[c]), buf as long as count[c].  The `?` of the caller returns an
\* error at once.
read_n_bytes(c) ==
    IF count[c] <= 0
    THEN /\ AfterReadN(c, <<>>)
         /\ UNCHANGED <<cbuf, acc>>
    ELSE \/ \E n \in 1..Min(Len(cbuf[c]), count[c] - Len(acc[c])) :
              LET buf == acc[c] \o Take(cbuf[c], n)
                  r == ReadNResult(Len(buf), count[c])
              IN  /\ cbuf' = [cbuf EXCEPT ![c] = Drop(@, n)]
                  /\ IF Len(buf) < count[c]
                     THEN /\ acc' = [acc EXCEPT ![c] = buf]
                          /\ UNCHANGED <<pc, hs, fwd, host>>
                     ELSE /\ acc' = [acc EXCEPT ![c] = <<>>]
                          /\ IF r.tag = "Ok"
                             THEN AfterReadN(c, buf)
                             ELSE HsReturn(c, r) /\ UNCHANGED host
         \/ /\ LocalReadEof(c)
            /\ LET r == ReadNResult(Len(acc[c]), count[c])
               IN  IF r.tag = "Ok"
                   THEN AfterReadN(c, acc[c])
                   ELSE HsReturn(c, r) /\ UNCHANGED host
            /\ UNCHANGED <<cbuf, acc>>
         \/ /\ LocalReadErr(c)
            /\ HsReturn(c, Err(FromIoError(IoError("ConnectionReset"))))
            /\ UNCHANGED <<cbuf, acc, host>>

(* -------------------------- socks5_handshake --------------------------- *)
\* read_exact on a stream that ends before the buffer is full
ReadExactFails(c, n) == Len(cbuf[c]) < n /\ cend[c] # "open"
ReadExactErr(c) ==
    IoError(IF cend[c] = "fin" THEN "UnexpectedEof" ELSE "ConnectionReset")

\* lines 20-28: the two bytes of the greeting, the version check
HsGreeting(c) ==
    /\ pc[c] = "greeting"
    /\ \/ /\ Len(cbuf[c]) >= 2
          /\ cbuf' = [cbuf EXCEPT ![c] = Drop(@, 2)]
          /\ LET buf == Take(cbuf[c], 2)
             IN  IF buf[1] # SOCKS_VERSION
                 THEN /\ HsReturn(c, Err(Socks5Error("UnsupportedVersion")))
                      /\ UNCHANGED count
                 ELSE /\ count' = [count EXCEPT ![c] = buf[2]]
                      /\ HsGoto(c, "methods")
       \/ /\ ReadExactFails(c, 2)
          /\ cbuf' = [cbuf EXCEPT ![c] = <<>>]
          /\ HsReturn(c, Err(FromIoError(ReadExactErr(c))))
          /\ UNCHANGED count
    /\ UNCHANGED <<globVars, spc, cend, cout, remoteVars, acc, host, relayVars>>

\* line 29: the method list
HsMethods(c) ==
    /\ pc[c] = "methods"
    /\ read_n_bytes(c)
    /\ UNCHANGED <<globVars, spc, cend, cout, remoteVars, count, relayVars>>

\* line 31: the method selection
HsSelect(c) ==
    /\ pc[c] = "select"
    /\ IF LocalWriteErr(c)
       THEN /\ HsReturn(c, Err(FromIoError(IoError("BrokenPipe"))))
            /\ UNCHANGED cout
       ELSE /\ cout' = [cout EXCEPT ![c] = @ \o <<SOCKS_VERSION, NO_AUTH>>]
            /\ HsGoto(c, "request")
    /\ UNCHANGED <<globVars, spc, cbuf, cend, remoteVars, count, acc, host, relayVars>>

\* lines 33-43 and 78: the request header, its checks, the match on buf[3]
RequestNext_DefaultDomain(buf) ==
    IF buf[1] # SOCKS_VERSION THEN Err(Socks5Error("UnsupportedVersion"))
    ELSE IF buf[2] # CMD_CONNECT THEN Err(Socks5Error("UnsupportedCommand"))
    ELSE IF buf[4] = TYP_IPV4 THEN Ok("addr4")
    ELSE IF buf[4] = TYP_IPV6 THEN Ok("addr6")
    ELSE Ok("domlen")
RequestNext_NoVersionCheck(buf) ==
    IF buf[2] # CMD_CONNECT THEN Err(Socks5Error("UnsupportedCommand"))
    ELSE IF buf[4] = TYP_IPV4 THEN Ok("addr4")
    ELSE IF buf[4] = TYP_DOMAIN THEN Ok("domlen")
    ELSE IF buf[4] = TYP_IPV6 THEN Ok("addr6")
    ELSE Err(Socks5Error("UnrecognizedAddrType"))
RequestNext_CommandFirst(buf) ==
    IF buf[2] # CMD_CONNECT THEN Err(Socks5Error("UnsupportedCommand"))
    ELSE IF buf[1] # SOCKS_VERSION THEN Err(Socks5Error("UnsupportedVersion"))
    ELSE IF buf[4] = TYP_IPV4 THEN Ok("addr4")
    ELSE IF buf[4] = TYP_DOMAIN THEN Ok("domlen")
    ELSE IF buf[4] = TYP_IPV6 THEN Ok("addr6")
    ELSE Err(Socks5Error("UnrecognizedAddrType"))
RequestNext(buf) ==
    IF buf[1] # SOCKS_VERSION THEN Err(Socks5Error("UnsupportedVersion"))
    ELSE IF buf[2] # CMD_CONNECT THEN Err(Socks5Error("UnsupportedCommand"))
    ELSE IF buf[4] = TYP_IPV4 THEN Ok("addr4")
    ELSE IF buf[4] = TYP_DOMAIN THEN Ok("domlen")
    ELSE IF buf[4] = TYP_IPV6 THEN Ok("addr6")
    ELSE Err(Socks5Error("UnrecognizedAddrType"))

HsRequest(c) ==
    /\ pc[c] = "request"
    /\ \/ /\ Len(cbuf[c]) >= 4
          /\ cbuf' = [cbuf EXCEPT ![c] = Drop(@, 4)]
          /\ LET r == RequestNext(Take(cbuf[c], 4))
             IN  IF r.tag = "Err"
                 THEN HsReturn(c, r) /\ UNCHANGED count
                 ELSE /\ HsGoto(c, r.val)
                      /\ count' = [count EXCEPT ![c] =
                             IF r.val = "addr4" THEN 4 ELSE IF r.val = "addr6" THEN 16 ELSE 0]
       \/ /\ ReadExactFails(c, 4)
          /\ cbuf' = [cbuf EXCEPT ![c] = <<>>]
          /\ HsReturn(c, Err(FromIoError(ReadExactErr(c))))
          /\ UNCHANGED count
    /\ UNCHANGED <<globVars, spc, cend, cout, remoteVars, acc, host, relayVars>>

\* lines 45-46: four address bytes
HsAddr4(c) ==
    /\ pc[c] = "addr4"
    /\ read_n_bytes(c)
    /\ UNCHANGED <<globVars, spc, cend, cout, remoteVars, count, relayVars>>

\* lines 56-59: the length byte of a domain name
HsDomainLen(c) ==
    /\ pc[c] = "domlen"
    /\ \/ /\ Len(cbuf[c]) >= 1
          /\ cbuf' = [cbuf EXCEPT ![c] = Drop(@, 1)]
          /\ count' = [count EXCEPT ![c] = Take(cbuf[c], 1)[1]]
          /\ HsGoto(c, "domain")
       \/ /\ ReadExactFails(c, 1)
          /\ cbuf' = [cbuf EXCEPT ![c] = <<>>]
          /\ HsReturn(c, Err(FromIoError(ReadExactErr(c))))
          /\ UNCHANGED count
    /\ UNCHANGED <<globVars, spc, cend, cout, remoteVars, acc, host, relayVars>>

\* line 61: the domain name
HsDomain(c) ==
    /\ pc[c] = "domain"
    /\ read_n_bytes(c)
    /\ UNCHANGED <<globVars, spc, cend, cout, remoteVars, count, relayVars>>

\* lines 70-71: sixteen address bytes
HsAddr6(c) ==
    /\ pc[c] = "addr6"
    /\ read_n_bytes(c)
    /\ UNCHANGED <<globVars, spc, cend, cout, remoteVars, count, relayVars>>

\* line 81: the length of the buffer the port is read into
PortLen == 2
PortBuf_Wide == PortLen + 2
PortBuf == PortLen

\* lines 81-85: the port, and the target returned
HsPort(c) ==
    /\ pc[c] = "port"
    /\ \/ /\ Len(cbuf[c]) >= PortBuf
          /\ cbuf' = [cbuf EXCEPT ![c] = Drop(@, PortBuf)]
          /\ LET buf == Take(cbuf[c], PortBuf)
             IN  HsReturn(c, Ok(Target(host[c], buf[1], buf[2])))
       \/ /\ ReadExactFails(c, PortBuf)
          /\ cbuf' = [cbuf EXCEPT ![c] = <<>>]
          /\ HsReturn(c, Err(FromIoError(ReadExactErr(c))))
    /\ UNCHANGED <<globVars, spc, cend, cout, remoteVars, count, acc, host, relayVars>>

(* --------------------------- socks5_forward ---------------------------- *)
\* socks5_forward returns r: the closure drops it (`let _ =`) and is done
FwdReturn(c, r) ==
    /\ result' = [result EXCEPT ![c] = r]
    /\ pc' = [pc EXCEPT ![c] = "done"]

\* line 89: what TcpStream::connect(target).await gives for a target that
\* leads to d
ConnectResult_Unchecked(d) == Ok(d)
ConnectResult(d) == IF d = Unreachable THEN Err(IoError("ConnectionRefused")) ELSE Ok(d)

\* line 89: TcpStream::connect(target).await?
FwdConnect(c) ==
    /\ pc[c] = "connect"
    /\ IF ConnectResult(dest[c]).tag = "Err"
       THEN /\ FwdReturn(c, ConnectResult(dest[c]))
            /\ UNCHANGED <<rend, rbuf>>
       ELSE /\ rend' = [rend EXCEPT ![c] = "open"]
            /\ rbuf' = [rbuf EXCEPT ![c] = dest[c].data]
            /\ pc' = [pc EXCEPT ![c] = "reply"]
            /\ UNCHANGED result
    /\ UNCHANGED <<rout, dest>>
    /\ UNCHANGED <<globVars, spc, clientVars, hsVars, fwd, issued, copyL, copyR>>

\* line 91: remote.peer_addr() fails (ENOTCONN) once the remote has reset
PeerAddr(c) == IF rend[c] = "rst" THEN Err(IoError("NotConnected")) ELSE Ok(dest[c])

\* lines 91-127: the reply the match on peer_addr() writes; none in the arm `_`
ReplyFor(pa, kept) == IF pa.tag = "Ok" THEN ReplyBytes(pa.val, kept) ELSE <<>>

\* lines 91-136: the reply, the clones, the spawn of the remote->client task
FwdReply(c) ==
    /\ pc[c] = "reply"
    /\ LET reply == ReplyFor(PeerAddr(c), storesKept)
       IN  IF reply # <<>> /\ LocalWriteErr(c)
           THEN /\ FwdReturn(c, Err(IoError("BrokenPipe")))
                /\ UNCHANGED <<cout, spc>>
           ELSE /\ cout' = [cout EXCEPT ![c] = @ \o reply]
                /\ spc' = [spc EXCEPT ![c] = "copy"]
                /\ pc' = [pc EXCEPT ![c] = "copy"]
                /\ UNCHANGED result
    /\ UNCHANGED <<globVars, cbuf, cend, remoteVars, hsVars, fwd, issued, copyL, copyR>>

\* what follows the inline io::copy: `?` returns its error, Ok goes on to
\* the shutdowns of lines 139-140
AfterCopyL_Dropped(r) == "shut_local"
AfterCopyL(r) == IF r.tag = "Err" THEN "done" ELSE "shut_local"

\* io::copy writes the n bytes its read has put into its buffer
CopyChunk_WholeBuffer(buf, n) == buf
CopyChunk(buf, n) == Take(buf, n)

\* the inline copy has returned r
CopyLReturn(c, r) ==
    /\ copyL' = [copyL EXCEPT ![c] = r]
    /\ pc' = [pc EXCEPT ![c] = AfterCopyL(r)]
    /\ result' = [result EXCEPT ![c] = IF AfterCopyL(r) = "done" THEN r ELSE @]

\* line 138: io::copy(&mut local, &mut remote), one read and write_all of it
CopyL2R(c) ==
    /\ pc[c] = "copy"
    /\ \/ \E n \in 1..Len(cbuf[c]) :
              /\ cbuf' = [cbuf EXCEPT ![c] = Drop(@, n)]
              /\ IF RemoteWriteErr(c)
                 THEN CopyLReturn(c, Err(IoError("BrokenPipe"))) /\ UNCHANGED rout
                 ELSE /\ rout' = [rout EXCEPT ![c] = @ \o CopyChunk(cbuf[c], n)]
                      /\ UNCHANGED <<pc, copyL, result>>
       \/ /\ LocalReadEof(c)
          /\ CopyLReturn(c, Ok(<<>>))
          /\ UNCHANGED <<cbuf, rout>>
       \/ /\ LocalReadErr(c)
          /\ CopyLReturn(c, Err(IoError("ConnectionReset")))
          /\ UNCHANGED <<cbuf, rout>>
    /\ UNCHANGED <<globVars, spc, cend, cout, rbuf, rend, dest, hsVars, fwd, issued, copyR>>

\* what follows a shutdown of the owning task: `?` returns its error
AfterShutdown(ok, next) == IF ok THEN next ELSE "done"

\* line 139: local.shutdown(Shutdown::Both)?
OwnShutLocal(c) ==
    /\ pc[c] = "shut_local"
    /\ \E ok \in ShutdownResults(cend[c], "local" \in issued[c]) :
           /\ issued' = [issued EXCEPT ![c] = @ \cup {"local"}]
           /\ pc' = [pc EXCEPT ![c] = AfterShutdown(ok, "shut_remote")]
           /\ result' = [result EXCEPT ![c] =
                  IF AfterShutdown(ok, "shut_remote") = "done"
                  THEN Err(IoError("NotConnected")) ELSE @]
    /\ UNCHANGED <<globVars, spc, clientVars, remoteVars, hsVars, fwd, copyL, copyR>>

\* lines 140-142: remote.shutdown(Shutdown::Both)?; Ok(())
OwnShutRemote(c) ==
    /\ pc[c] = "shut_remote"
    /\ \E ok \in ShutdownResults(rend[c], "remote" \in issued[c]) :
           /\ issued' = [issued EXCEPT ![c] = @ \cup {"remote"}]
           /\ FwdReturn(c, IF AfterShutdown(ok, "ok") = "ok"
                           THEN Ok(<<>>) ELSE Err(IoError("NotConnected")))
    /\ UNCHANGED <<globVars, spc, clientVars, remoteVars, hsVars, fwd, copyL, copyR>>

(* ------------------------- the spawned task ---------------------------- *)
\* line 133: io::copy(&mut remote_clone, &mut local_clone), one read and
\* write_all of it; its result is dropped (`let _ =`)
CopyR2L(c) ==
    /\ spc[c] = "copy"
    /\ \/ \E n \in 1..Len(rbuf[c]) :
              /\ rbuf' = [rbuf EXCEPT ![c] = Drop(@, n)]
              /\ IF LocalWriteErr(c)
                 THEN /\ copyR' = [copyR EXCEPT ![c] = Err(IoError("BrokenPipe"))]
                      /\ spc' = [spc EXCEPT ![c] = "shut_local"]
                      /\ UNCHANGED cout
                 ELSE /\ cout' = [cout EXCEPT ![c] = @ \o CopyChunk(rbuf[c], n)]
                      /\ UNCHANGED <<spc, copyR>>
       \/ /\ RemoteReadEof(c)
          /\ copyR' = [copyR EXCEPT ![c] = Ok(<<>>)]
          /\ spc' = [spc EXCEPT ![c] = "shut_local"]
          /\ UNCHANGED <<rbuf, cout>>
       \/ /\ RemoteReadErr(c)
          /\ copyR' = [copyR EXCEPT ![c] = Err(IoError("ConnectionReset"))]
          /\ spc' = [spc EXCEPT ![c] = "shut_local"]
          /\ UNCHANGED <<rbuf, cout>>
    /\ UNCHANGED <<globVars, pc, cbuf, cend, rend, rout, dest, hsVars, fwd, issued,
                   copyL, result>>

\* line 134: let _ = local_clone.shutdown(Shutdown::Both)
SpShutLocal(c) ==
    /\ spc[c] = "shut_local"
    /\ issued' = [issued EXCEPT ![c] = @ \cup {"local"}]
    /\ spc' = [spc EXCEPT ![c] = "shut_remote"]
    /\ UNCHANGED <<globVars, pc, clientVars, remoteVars, hsVars, fwd, copyL, copyR, result>>

\* lines 135-136: let _ = remote_clone.shutdown(Shutdown::Both); the task ends
SpShutRemote(c) ==
    /\ spc[c] = "shut_remote"
    /\ issued' = [issued EXCEPT ![c] = @ \cup {"remote"}]
    /\ spc' = [spc EXCEPT ![c] = "done"]
    /\ UNCHANGED <<globVars, pc, clientVars, remoteVars, hsVars, fwd, copyL, copyR, result>>

(* --------------------------- the two peers ----------------------------- *)
\* the client closes its sending side
ClientFin(c) ==
    /\ LocalHeld(c)
    /\ cend[c] = "open"
    /\ cend' = [cend EXCEPT ![c] = "fin"]
    /\ UNCHANGED <<globVars, pc, spc, cbuf, cout, remoteVars, hsVars, fwd, relayVars>>

\* the client resets the connection
ClientRst(c) ==
    /\ LocalHeld(c)
    /\ cend[c] \in {"open", "fin"}
    /\ cend' = [cend EXCEPT ![c] = "rst"]
    /\ UNCHANGED <<globVars, pc, spc, cbuf, cout, remoteVars, hsVars, fwd, relayVars>>

\* the remote closes its sending side
RemoteFin(c) ==
    /\ RemoteHeld(c)
    /\ rend[c] = "open"
    /\ rend' = [rend EXCEPT ![c] = "fin"]
    /\ UNCHANGED <<globVars, pc, spc, clientVars, rbuf, rout, dest, hsVars, fwd, relayVars>>

\* the remote resets the connection
RemoteRst(c) ==
    /\ RemoteHeld(c)
    /\ rend[c] \in {"open", "fin"}
    /\ rend' = [rend EXCEPT ![c] = "rst"]
    /\ UNCHANGED <<globVars, pc, spc, clientVars, rbuf, rout, dest, hsVars, fwd, relayVars>>

(* -------------------------- specifications ----------------------------- *)
\* socks5_handshake(&mut stream), from one await to the next
socks5_handshake(c) ==
    \/ HsGreeting(c) \/ HsMethods(c) \/ HsSelect(c) \/ HsRequest(c)
    \/ HsAddr4(c) \/ HsDomainLen(c) \/ HsDomain(c) \/ HsAddr6(c) \/ HsPort(c)

\* socks5_forward(stream, target), from one await to the next
socks5_forward(c) ==
    FwdConnect(c) \/ FwdReply(c) \/ CopyL2R(c) \/ OwnShutLocal(c) \/ OwnShutRemote(c)

\* a step of the handler future of connection c
HandlerStep(c) == socks5_handshake(c) \/ socks5_forward(c)

\* a step of the task spawned for connection c
SpawnedStep(c) == CopyR2L(c) \/ SpShutLocal(c) \/ SpShutRemote(c)

\* a step of the peers of connection c
PeerStep(c) == ClientFin(c) \/ ClientRst(c) \/ RemoteFin(c) \/ RemoteRst(c)

\* start_socks5_server: the acceptor and the futures it runs
start_socks5_server(c) == Accept(c) \/ AcceptFail(c) \/ HandlerStep(c)

Next == \E c \in Conns : start_socks5_server(c) \/ SpawnedStep(c) \/ PeerStep(c)

Spec == Init /\ [][Next]_vars

SpecServer == InitServer /\ [][Next]_vars

\* The executor polls every task that can run: the acceptor, the handler
\* futures and the spawned tasks are weakly fair.  The peers owe nothing.
Fairness ==
    \A c \in Conns :
        /\ WF_vars(Accept(c))
        /\ WF_vars(HandlerStep(c))
        /\ WF_vars(SpawnedStep(c))

FairSpec == Init /\ [][Next]_vars /\ Fairness

(* ------------------------------ claims --------------------------------- *)
\* the relay of connection c has started: the remote->client task was spawned
RelayStarted(c) == spc[c] # "none"

\* shutdown(Both) has been called on both sockets of connection c
BothShutdownsIssued(c) == {"local", "remote"} \subseteq issued[c]

\* C1: in every terminal state of socks5_forward after relaying started,
\* shutdown(Both) has been issued on the client socket and on the remote
\* socket, whichever copy ended first and for whichever reason.
C1_Claim ==
    \A c \in Conns : (pc[c] = "done" /\ RelayStarted(c)) => BothShutdownsIssued(c)

\* C2: once relaying has started, after one side closes (the client or the
\* remote sends EOF) both sockets are eventually shut down and both copies
\* eventually terminate, and after one copy has terminated the other one
\* eventually terminates too.
C2_Claim ==
    \A c \in Conns :
        /\ (RelayStarted(c) /\ (cend[c] = "fin" \/ rend[c] = "fin"))
               ~> (BothShutdownsIssued(c) /\ copyL[c] # None /\ copyR[c] # None)
        /\ (copyL[c] # None \/ copyR[c] # None) ~> (copyL[c] # None /\ copyR[c] # None)

\* the bytes the read at pc[c] of the handshake still needs (0 where the
\* handshake is not reading)
Needs(c) ==
    IF pc[c] \in {"greeting", "port"} THEN 2
    ELSE IF pc[c] = "request" THEN 4
    ELSE IF pc[c] = "domlen" THEN 1
    ELSE IF pc[c] \in {"methods", "addr4", "domain", "addr6"} THEN count[c] - Len(acc[c])
    ELSE 0

\* the client of c has closed its stream before the bytes the handshake is
\* reading have all arrived
ClosedEarly(c) == cend[c] = "fin" /\ Len(cbuf[c]) < Needs(c)

\* C3: at every read step of the handshake, when the client has closed the
\* stream before the required bytes arrived, socks5_handshake fails with
\* UnexpectedEOF and no target is produced.
C3_Claim ==
    [][\A c \in Conns :
           (ClosedEarly(c) /\ pc'[c] = "done")
               => (hs'[c] = Err(Socks5Error("UnexpectedEOF")) /\ fwd'[c] = None)]_vars

\* C4: when the handler future of a connection completes, its client socket
\* is closed (no handle of it is left) or has been shut down in both
\* directions.
C4_Claim ==
    \A c \in Conns : pc[c] = "done" => (~LocalHeld(c) \/ "local" \in issued[c])

\* the CONNECT reply for the peer of c stands in the client-bound stream right
\* after the method selection
ReplyWritten(c) ==
    LET reply == ReplyBytes(dest[c], storesKept)
    IN  /\ dest[c] # Unreachable
        /\ Len(cout[c]) >= 2 + Len(reply)
        /\ SubSeq(cout[c], 3, 2 + Len(reply)) = reply

\* C5: no copy operation is started and no byte is forwarded for a connection
\* whose CONNECT reply has not been written to the client.
C5_Claim ==
    \A c \in Conns :
        (RelayStarted(c) \/ rout[c] # <<>> \/ Len(cout[c]) > 2) => ReplyWritten(c)

\* socks5_forward has been entered for connection c
ForwardEntered(c) ==
    pc[c] \in ForwardPcs \/ fwd[c] # None \/ result[c] # None \/ rend[c] # "none"

\* C6: socks5_forward is entered, and an outbound connect attempted, only
\* after socks5_handshake returned Ok, and with the target it returned.
C6_HandshakeGatesForward ==
    \A c \in Conns : ForwardEntered(c) => (hs[c].tag = "Ok" /\ fwd[c] = hs[c])

\* C6 witness: a remote is connected for the target the handshake returned,
\* while a handshake that failed has gone no further
C6_Witness ==
    \E c \in Conns : rend[c] = "open" /\ hs[c].tag = "Ok" /\ fwd[c] = hs[c] /\ Len(hs[c].val) > 1

\* the handler of connection a waits on a read that nothing satisfies
Stalled(a) == pc[a] \in HandshakePcs \cup {"copy"} /\ ~ENABLED HandlerStep(a)

\* connection a has failed: at accept, in its handshake or in its relay
Failed(a) == pc[a] = "done" /\ result[a].tag # "Ok"

\* C7, as claimed: whenever a connection has failed or is stalled on a read,
\* every other connection that waits at the listener can be accepted.
C7_Claim ==
    \A a, b \in Conns :
        (a # b /\ (Failed(a) \/ Stalled(a)) /\ pc[b] = "pending") => ENABLED Accept(b)

\* the socket of the handler of b has what its next read needs, or the
\* handler is not about to read
HasInput(b) ==
    \/ pc[b] \in {"select", "connect", "reply", "shut_local", "shut_remote"}
    \/ cend[b] # "open"
    \/ "local" \in issued[b]
    \/ IF pc[b] \in {"greeting", "request", "domlen", "port"}
       THEN Len(cbuf[b]) >= Needs(b)
       ELSE cbuf[b] # <<>>

\* C7, amended: a step changes the state of one connection only; a connection
\* that waits at the listener can be accepted whenever fewer than
\* max_connections handlers are in flight (always, with max_connections = 0),
\* whatever has failed before; and an accepted connection can take its next
\* step as soon as its own sockets allow it, whatever the others do.
C7_Isolation ==
    /\ [](\A b \in Conns :
              /\ (/\ pc[b] = "pending"
                  /\ (maxConnections = 0 \/ Cardinality(InFlight) < maxConnections))
                     => ENABLED Accept(b)
              /\ (b \in InFlight /\ HasInput(b)) => ENABLED HandlerStep(b))
    /\ [][\A a, b \in Conns :
              (a # b /\ ConnState(a)' # ConnState(a)) => ConnState(b)' = ConnState(b)]_vars

\* C7 witness: one connection is stalled in its relay, the acceptor has
\* swallowed the failure of no one, and the other connection forwards bytes
C7_Witness ==
    \E a, b \in Conns :
        a # b /\ Stalled(a) /\ pc[b] = "copy" /\ rout[b] # <<>> /\ cbuf[b] = <<>>

\* the connections some task of the proxy still works on
Active == {c \in Conns : pc[c] \in HandshakePcs \cup ForwardPcs \/ spc[c] \in SpawnedPcs}

\* C8, as claimed: with max_connections = N > 0, the connections whose
\* handshake or relay, the spawned copy task included, is in progress are
\* never more than N.
C8_Claim == maxConnections > 0 => Cardinality(Active) <= maxConnections

\* C8, amended: with max_connections = N > 0, the handler futures in flight
\* (handshake, then socks5_forward up to its return) are never more than N;
\* the spawned copy tasks are not counted.
C8_HandlersBounded == maxConnections > 0 => Cardinality(InFlight) <= maxConnections

\* C8 witness: under a limit of 1, a connection waits at the listener while
\* the only slot is taken, and the limit holds it back
C8_Witness ==
    /\ maxConnections = 1
    /\ \E a, b \in Conns :
           a \in InFlight /\ pc[b] = "pending" /\ ~ENABLED Accept(b)

\* C9, as claimed: socks5_forward returns Err whenever either copy ended
\* with an I/O error.
C9_Claim ==
    \A c \in Conns :
        (pc[c] = "done" /\ (copyL[c].tag = "Err" \/ copyR[c].tag = "Err"))
            => result[c].tag = "Err"

\* C9, amended: a failed connect and an I/O error of the inline
\* client->remote copy are returned as they are, and socks5_forward returns
\* Ok only after an inline copy that ended well and both shutdowns.
C9_InlineErrorsPropagate ==
    \A c \in Conns :
        /\ copyL[c].tag = "Err" => (pc[c] = "done" /\ result[c] = copyL[c])
        /\ (pc[c] = "done" /\ fwd[c] # None) => result[c] # None
        /\ (pc[c] = "done" /\ fwd[c] # None /\ dest[c] = Unreachable)
               => result[c].tag = "Err"
        /\ result[c].tag = "Ok" => (copyL[c].tag = "Ok" /\ BothShutdownsIssued(c))

\* C9 witness: the inline copy failed on a write to the remote and
\* socks5_forward returned that error
C9_Witness ==
    \E c \in Conns :
        /\ pc[c] = "done"
        /\ copyL[c] = Err(IoError("BrokenPipe"))
        /\ result[c] = copyL[c]

\* C10: in a relay whose inline copy ended well and whose peers reset
\* nothing, a shutdown of a socket the other task has already shut down
\* neither makes socks5_forward skip its second shutdown nor makes it return
\* an error.
C10_Claim ==
    \A c \in Conns :
        (pc[c] = "done" /\ copyL[c].tag = "Ok" /\ cend[c] # "rst" /\ rend[c] # "rst")
            => (result[c].tag = "Ok" /\ BothShutdownsIssued(c))

\* p is a prefix of s
IsPrefix(p, s) == Len(p) <= Len(s) /\ p = SubSeq(s, 1, Len(p))

\* the length of the greeting and the request that open the byte stream s of
\* a client (RFC 1928: VER NMETHODS METHODS, VER CMD RSV ATYP ADDR PORT)
HandshakeLen(s) ==
    LET atyp == 2 + s[2] + 4
        addr == IF s[atyp] = TYP_IPV4 THEN 4
                ELSE IF s[atyp] = TYP_IPV6 THEN 16
                ELSE 1 + s[atyp + 1]
    IN  atyp + addr + 2

\* what the proxy itself may have put into the client-bound stream of c
Injected(c) ==
    {<<>>, <<SOCKS_VERSION, NO_AUTH>>}
        \cup (IF dest[c] = Unreachable THEN {}
              ELSE {<<SOCKS_VERSION, NO_AUTH>> \o ReplyBytes(dest[c], storesKept)})

\* C11: at every moment the bytes delivered to the remote are a prefix of
\* the bytes the client sent after its request, and the bytes delivered to
\* the client are the method selection and the CONNECT reply followed by a
\* prefix of the bytes the remote sent.
C11_PassThrough ==
    \A c \in Conns :
        /\ rout[c] # <<>> =>
               /\ hs[c].tag = "Ok"
               /\ IsPrefix(rout[c], Drop(script[c], HandshakeLen(script[c])))
        /\ \E inj \in Injected(c) :
               /\ IsPrefix(inj, cout[c])
               /\ IsPrefix(Drop(cout[c], Len(inj)), dest[c].data)
               /\ Len(cout[c]) > Len(inj) => RelayStarted(c)

\* C11 witness: both directions have delivered all of two bytes, the client's
\* sent before the relay started
C11_Witness ==
    \E c \in Conns :
        /\ rout[c] = Payload
        /\ Len(dest[c].data) = 2
        /\ cout[c] = <<SOCKS_VERSION, NO_AUTH>> \o ReplyBytes(dest[c], storesKept) \o dest[c].data

\* the number of bytes the proxy has read from the client socket of c
Consumed(c) == Len(script[c]) - Len(cbuf[c])

\* the four bytes of the request header are there for the read of line 34
AtRequest(c) == pc[c] = "request" /\ Len(cbuf[c]) >= 4

\* the address types socks5_handshake knows
AddrTypes == {TYP_IPV4, TYP_DOMAIN, TYP_IPV6}

\* C12: a request header with valid version and command and an address type
\* outside {1, 3, 4} makes the handshake fail with UnrecognizedAddrType right
\* after the four bytes of the header, no address or port byte read, and no
\* outbound connection is ever attempted for that connection.
C12_UnrecognizedAddrType ==
    /\ [][\A c \in Conns :
              (/\ AtRequest(c) /\ pc'[c] # pc[c]
               /\ cbuf[c][1] = SOCKS_VERSION /\ cbuf[c][2] = CMD_CONNECT
               /\ cbuf[c][4] \notin AddrTypes)
                  => /\ hs'[c] = Err(Socks5Error("UnrecognizedAddrType"))
                     /\ pc'[c] = "done"
                     /\ cbuf'[c] = Drop(cbuf[c], 4)
                     /\ fwd'[c] = None]_vars
    /\ [](\A c \in Conns :
              hs[c] = Err(Socks5Error("UnrecognizedAddrType"))
                  => /\ pc[c] = "done" /\ spc[c] = "none"
                     /\ fwd[c] = None /\ rend[c] = "none" /\ rout[c] = <<>>
                     /\ Consumed(c) = 2 + script[c][2] + 4)

\* C12 witness: the handshake has failed with UnrecognizedAddrType and the
\* bytes that follow the request header are still unread
C12_Witness ==
    \E c \in Conns :
        hs[c] = Err(Socks5Error("UnrecognizedAddrType")) /\ Len(cbuf[c]) >= 2

\* C13: a version byte other than 5 aborts the handshake with
\* UnsupportedVersion where it is read, in the greeting header and in the
\* request header; after a greeting of a wrong version no method selection is
\* written and no further byte is read.
C13_VersionChecked ==
    /\ [][\A c \in Conns :
              pc'[c] # pc[c] =>
                  /\ (pc[c] = "greeting" /\ Len(cbuf[c]) >= 2 /\ cbuf[c][1] # SOCKS_VERSION)
                         => /\ hs'[c] = Err(Socks5Error("UnsupportedVersion"))
                            /\ pc'[c] = "done"
                            /\ cbuf'[c] = Drop(cbuf[c], 2)
                            /\ cout'[c] = <<>>
                  /\ (AtRequest(c) /\ cbuf[c][1] # SOCKS_VERSION)
                         => /\ hs'[c] = Err(Socks5Error("UnsupportedVersion"))
                            /\ pc'[c] = "done"
                            /\ cbuf'[c] = Drop(cbuf[c], 4)
                            /\ cout'[c] = cout[c]]_vars
    /\ [](\A c \in Conns :
              hs[c] = Err(Socks5Error("UnsupportedVersion"))
                  => /\ pc[c] = "done" /\ fwd[c] = None /\ rend[c] = "none"
                     /\ \/ cout[c] = <<>> /\ Consumed(c) = 2
                        \/ /\ cout[c] = <<SOCKS_VERSION, NO_AUTH>>
                           /\ Consumed(c) = 2 + script[c][2] + 4)

\* C13 witness: a greeting of version 4 was refused, nothing was written and
\* the bytes behind the greeting header are unread
C13_Witness ==
    \E c \in Conns :
        /\ hs[c] = Err(Socks5Error("UnsupportedVersion"))
        /\ script[c][1] = 4
        /\ cout[c] = <<>>
        /\ cbuf[c] # <<>>

\* the pcs of socks5_handshake before and after the write of the selection
BeforeSelect == {"greeting", "methods", "select"}
AfterSelect == HandshakePcs \ BeforeSelect

\* C14: after a greeting of version 5, whatever methods it offers (none, or
\* none of them 0), the handshake writes the two bytes 5, 0 once, after it
\* has read all the method bytes and before it reads a byte of the request
\* header, and goes on to the request header; the methods offered make no
\* step of it fail.
C14_SelectionUnconditional ==
    /\ [](\A c \in Conns :
              /\ pc[c] \in BeforeSelect => cout[c] = <<>>
              /\ pc[c] = "select" => Consumed(c) = 2 + script[c][2]
              /\ pc[c] \in AfterSelect \cup {"connect", "reply"}
                     => cout[c] = <<SOCKS_VERSION, NO_AUTH>>
              /\ pc[c] = "request" => Consumed(c) = 2 + script[c][2])
    /\ [][\A c \in Conns :
              pc'[c] # pc[c] =>
                  /\ (pc[c] = "greeting" /\ Len(cbuf[c]) >= 2 /\ cbuf[c][1] = SOCKS_VERSION)
                         => /\ pc'[c] = "methods"
                            /\ count'[c] = cbuf[c][2]
                  /\ (pc[c] = "methods" /\ Len(acc[c]) + Len(cbuf[c]) >= count[c])
                         => pc'[c] = "select"
                  /\ (pc[c] = "select" /\ ~LocalWriteErr(c))
                         => /\ pc'[c] = "request"
                            /\ cout'[c] = <<SOCKS_VERSION, NO_AUTH>>
                            /\ cbuf'[c] = cbuf[c]]_vars

\* C14 witness: the selection follows a greeting that offered no method, and
\* one that offered only method 2
C14_Witness ==
    \E c \in Conns :
        /\ pc[c] = "request"
        /\ cout[c] = <<SOCKS_VERSION, NO_AUTH>>
        /\ \/ script[c][2] = 0
           \/ script[c][2] = 1 /\ script[c][3] = 2

\* C17: the request header is checked in the order version, command, address
\* type and the first failing check decides: a wrong version gives
\* UnsupportedVersion whatever command and address type are, a command other
\* than CONNECT gives UnsupportedCommand whatever the address type is and
\* before an address byte is read, and the reserved byte is not looked at.
C17_RequestOrder ==
    [][\A c \in Conns :
           (AtRequest(c) /\ pc'[c] # pc[c]) =>
               /\ cbuf[c][1] # SOCKS_VERSION
                      => hs'[c] = Err(Socks5Error("UnsupportedVersion"))
               /\ (cbuf[c][1] = SOCKS_VERSION /\ cbuf[c][2] # CMD_CONNECT)
                      => /\ hs'[c] = Err(Socks5Error("UnsupportedCommand"))
                         /\ cbuf'[c] = Drop(cbuf[c], 4)
               /\ (/\ cbuf[c][1] = SOCKS_VERSION /\ cbuf[c][2] = CMD_CONNECT
                   /\ cbuf[c][4] \in AddrTypes)
                      => /\ hs'[c] = None
                         /\ pc'[c] \in {"addr4", "domlen", "addr6"}]_vars

\* C17 witness: UnsupportedCommand for a header whose address type is unknown
\* too and whose reserved byte is not 0; the address bytes are unread
C17_Witness ==
    \E c \in Conns :
        /\ hs[c] = Err(Socks5Error("UnsupportedCommand"))
        /\ script[c][2 + script[c][2] + 3] # RSV
        /\ script[c][2 + script[c][2] + 4] \notin AddrTypes
        /\ Len(cbuf[c]) >= 4

\* the reply RFC 1928 asks for when the connected peer is p: version,
\* success, reserved, the address type of p, its address and its port in
\* network order
ExpectedReply(p) ==
    <<5, 0, 0, IF p.fam = "V4" THEN 1 ELSE 4>> \o p.ip \o <<p.port \div 256, p.port % 256>>

C16_ConnectFailure ==
    \A c \in Conns :
        /\ pc[c] = "connect" => ENABLED FwdConnect(c)
        /\ (fwd[c] # None /\ pc[c] # "connect" /\ dest[c] = Unreachable)
               => /\ pc[c] = "done"
                  /\ result[c].tag = "Err"
                  /\ cout[c] = <<SOCKS_VERSION, NO_AUTH>>
                  /\ spc[c] = "none" /\ copyL[c] = None /\ copyR[c] = None
                  /\ rend[c] = "none" /\ rout[c] = <<>>
                  /\ ~LocalHeld(c)

\* C16 witness: socks5_forward has returned the error of a failed connect
\* while the client still had bytes for the remote
C16_Witness ==
    \E c \in Conns :
        /\ dest[c] = Unreachable
        /\ result[c] = Err(IoError("ConnectionRefused"))
        /\ cbuf[c] = Payload

\* C18: a handshake that succeeded has read the greeting and the request
\* and not one byte more, however the reads were split: what the client
\* sent behind the request is unread when socks5_forward starts, and its
\* first byte is the first byte forwarded to the remote.
C18_ExactConsumption ==
    \A c \in Conns :
        hs[c].tag = "Ok" =>
            /\ Len(script[c]) >= HandshakeLen(script[c])
            /\ pc[c] \in {"connect", "reply"}
                   => cbuf[c] = Drop(script[c], HandshakeLen(script[c]))
            /\ Consumed(c) >= HandshakeLen(script[c])
            /\ rout[c] # <<>> => rout[c][1] = script[c][HandshakeLen(script[c]) + 1]

\* C18 witness: after a request for a three-byte domain name the relay
\* starts with the payload unread
C18_Witness ==
    \E c \in Conns :
        /\ hs[c].tag = "Ok"
        /\ pc[c] = "copy"
        /\ script[c][2 + script[c][2] + 4] = TYP_DOMAIN
        /\ HandshakeLen(script[c]) = 13
        /\ cbuf[c] = Payload

\* where socks5_handshake is inside a call of read_n_bytes
ReadNPcs == {"methods", "addr4", "domain", "addr6"}

\* the errors a call of read_n_bytes hands to socks5_handshake
ReadNErrors == {"UnexpectedEOF", "ExtraDataRead", "IOError"}

\* C19: with a buffer as long as count, read_n_bytes adds up reads of any
\* sizes; it returns Ok(count), having read count bytes, exactly when the
\* stream delivers count bytes before it closes, UnexpectedEOF exactly when
\* the stream closes after fewer, Ok(0) without a read when count is 0, and
\* never ExtraDataRead: the bytes read never exceed count.
C19_ReadNBytes ==
    /\ [](\A c \in Conns :
              /\ hs[c] # Err(Socks5Error("ExtraDataRead"))
              /\ pc[c] \in ReadNPcs => Len(acc[c]) <= count[c])
    /\ [][\A c \in Conns :
              (pc[c] \in ReadNPcs /\ pc'[c] # pc[c]) =>
                  LET avail == Len(acc[c]) + Len(cbuf[c])
                      got == Len(acc[c]) + (Len(cbuf[c]) - Len(cbuf'[c]))
                  IN  /\ count[c] = 0
                             => cbuf'[c] = cbuf[c] /\ hs'[c].err.variant \notin ReadNErrors
                      /\ avail >= count[c]
                             => got = count[c] /\ hs'[c].err.variant \notin ReadNErrors
                      /\ (avail < count[c] /\ cend[c] = "fin")
                             => hs'[c] = Err(Socks5Error("UnexpectedEOF"))
                      /\ hs'[c] = Err(Socks5Error("UnexpectedEOF"))
                             => (avail < count[c] /\ cend[c] = "fin" /\ got = avail)]_vars

\* C19 witness: the stream closed in the middle of an IPv6 address, after
\* some reads had been added up, and the handshake got UnexpectedEOF
C19_Witness ==
    \E c \in Conns :
        /\ hs[c] = Err(Socks5Error("UnexpectedEOF"))
        /\ count[c] = 16
        /\ Len(acc[c]) \in 2..15

\* the number a string of decimal digits stands for
RECURSIVE DecValue(_)
DecValue(d) ==
    IF d = <<>> THEN 0 ELSE DecValue(SubSeq(d, 1, Len(d) - 1)) * 10 + (d[Len(d)] - 48)

\* d is the decimal numeral of v: digits only, no leading zero
IsDecimalOf(d, v) ==
    /\ d # <<>>
    /\ \A i \in 1..Len(d) : d[i] \in 48..57
    /\ Len(d) > 1 => d[1] # 48
    /\ DecValue(d) = v

\* C20: for the port bytes hi, lo the target socks5_handshake returns is the
\* parsed host, ':' and the decimal numeral of hi * 256 + lo, a number of 16
\* bits.
C20_PortBigEndian ==
    [][\A c \in Conns :
           (pc[c] = "port" /\ Len(cbuf[c]) >= 2 /\ pc'[c] # pc[c]) =>
               LET port == cbuf[c][1] * 256 + cbuf[c][2]
                   t == hs'[c].val
                   n == Len(host[c])
               IN  /\ hs'[c].tag = "Ok"
                   /\ port < 65536
                   /\ Len(t) > n + 1
                   /\ SubSeq(t, 1, n) = host[c]
                   /\ t[n + 1] = 58
                   /\ IsDecimalOf(SubSeq(t, n + 2, Len(t)), port)]_vars

\* C20 witness: the port bytes 255, 255 gave a target that ends in ":65535"
C20_Witness ==
    \E c \in Conns :
        /\ hs[c].tag = "Ok"
        /\ Len(hs[c].val) > 6
        /\ SubSeq(hs[c].val, Len(hs[c].val) - 5, Len(hs[c].val)) = <<58, 54, 53, 53, 51, 53>>

=============================================================================
